---- MODULE Spec2Model ----
(***************************************************************************)
(* A model of pdf_to_html.py: font resolution (FontOps), text-run          *)
(* extraction (Extractors.extract_text_blocks) and the conversion driver   *)
(* pdf_to_html.                                                            *)
(*                                                                         *)
(* Conventions.  A font name is a sequence of characters, so that the      *)
(* test '+' in name is a scan.  A Python dict is a function whose DOMAIN   *)
(* is its key set; the insertion-ordered dict `data` is a sequence of      *)
(* <<xref, name>> pairs.  Lengths are integers in hundredths of a pixel    *)
(* (the code rounds to two decimals).                                      *)
(***************************************************************************)
EXTENDS Integers, Sequences, FiniteSets, TLC

VARIABLES
    pc,          \* position of the running call
    tempDir,     \* the TemporaryDirectory: "none", "exists", "cleaned"
    docOpen,     \* pymupdf.open(pdf_path) has returned and doc.close() has not run
    doc,         \* the document: a sequence of pages [fonts, lines]
    exc,         \* the exception that ended the call, "no" while there is none
    data,        \* extract_fonts_from_pdf: the pool of unconsumed font-table entries
    fonts,       \* extract_fonts_from_pdf: the font map being built / returned
    BUFFERS,     \* FontOps.BUFFERS
    font_xref,   \* extract_fonts_from_pdf: the local variable font_xref
    fileIdx,     \* how many files the running loop (ttf, then otf) has processed
    bound,       \* history: the key each processed font file was bound under, in order
    pageIdx,     \* pdf_to_html: index of the page being processed
    pages_data,  \* pdf_to_html: one record per finished page
    textRead,    \* history: pages whose text layer extract_text_blocks has read
    redactions,  \* history: how many times each page has been redacted
    staleRead,   \* history: some read of a page's fonts or text saw a redacted page
    output,      \* the output path: "absent" or "written"
    scale_factor,\* the scale factor of the conversion
    result       \* extract_text_blocks: what the last call returned, or that it raised

vars == <<pc, tempDir, docOpen, doc, exc, data, fonts, BUFFERS,
          font_xref, fileIdx, bound, pageIdx, pages_data, textRead, redactions,
          staleRead, output, scale_factor, result>>

-----------------------------------------------------------------------------
(* Python values *)

\* None as a dict key or as the value of font_xref (xrefs of a PDF are positive)
None == 0

\* a local variable that has not been assigned yet
Unbound == -1

\* None as the value of a name, data or format field
PyNone == << >>

\* '+' in name
HasPlus(name) == \E i \in DOMAIN name : name[i] = "+"

\* d[k] = v on a dict
Put(d, k, v) == [x \in (DOMAIN d) \cup {k} |-> IF x = k THEN v ELSE d[x]]

\* the sequence s without its i-th element
RemoveAt(s, i) == [j \in 1..(Len(s) - 1) |-> IF j < i THEN s[j] ELSE s[j + 1]]

\* the keys of the ordered dict `data`
Keys(d) == {d[i][1] : i \in DOMAIN d}

\* the first of the indexes `hits` of a sequence (the entries a loop with a break
\* tests), 0 when there is none
FirstIndex(hits) ==
    IF hits = {} THEN 0 ELSE CHOOSE i \in hits : \A j \in hits : i <= j

-----------------------------------------------------------------------------
(* FontOps.extract_fonts_from_pdf *)

RECURSIVE AddPageFonts(_, _)
\* lines 40-44 for one page: the first name seen for an xref stays
AddPageFonts(d, pageFonts) ==
    IF pageFonts = << >> THEN d
    ELSE LET f == Head(pageFonts)
         IN AddPageFonts(IF f[1] \in Keys(d) THEN d ELSE Append(d, f), Tail(pageFonts))

RECURSIVE FontTableFrom(_, _)
FontTableFrom(d, pages) ==
    IF pages = << >> THEN d
    ELSE FontTableFrom(AddPageFonts(d, Head(pages).fonts), Tail(pages))

\* lines 38-44: the font table of the document, xref -> first-seen name, in first-seen order
FontTable(pages) == FontTableFrom(<< >>, pages)

\* pymupdf.Font(fontbuffer=file.read_bytes())
BufferMeasurer(kind, idx) == [src |-> "fontbuffer", file |-> <<kind, idx>>]

\* pymupdf.Font(fontname=name)
SystemMeasurer(name) == [src |-> "fontname", name |-> name]

\* the dict stored for a font file whose woff conversion succeeded
EmbeddedEntry(name, xref, kind, idx) ==
    [name |-> name, data |-> <<kind, idx>>, xref |-> xref, format |-> "woff"]

\* the dict stored for a non-embedded font
SystemEntry(name, xref) ==
    [name |-> name, data |-> PyNone, xref |-> xref, format |-> "None"]

\* the state of the call that a loop body reads and writes
FontState == [data |-> data, fonts |-> fonts, BUFFERS |-> BUFFERS,
              font_xref |-> font_xref, bound |-> bound, raised |-> "no"]

\* lines 49-76: the body of the ttf loop for the idx-th ttf file
TtfStep(s, file, idx) ==
    IF ~HasPlus(file.family) /\ s.data = << >>
    THEN [s EXCEPT !.raised = "IndexError"]                       \* line 54
    ELSE
    LET font_family == IF HasPlus(file.family) THEN file.family ELSE s.data[1][2]
        i == FirstIndex({j \in DOMAIN s.data : s.data[j][2] = font_family})
        xref == IF i = 0 THEN None ELSE s.data[i][1]
        rest == IF i = 0 THEN s.data ELSE RemoveAt(s.data, i)
        s1 == [s EXCEPT !.data = rest,
                        !.font_xref = xref,
                        !.BUFFERS = Put(s.BUFFERS, xref, BufferMeasurer("ttf", idx)),
                        !.bound = Append(s.bound, xref)]
    IN IF ~file.saveOk
       THEN [s1 EXCEPT !.raised = "SaveError"]                    \* line 67
       ELSE [s1 EXCEPT !.fonts = Put(s.fonts, xref,
                                     EmbeddedEntry(font_family, xref, "ttf", idx))]

\* lines 79-103: the body of the otf loop for the idx-th otf file
OtfStep(s, file, idx) ==
    LET i == FirstIndex({j \in DOMAIN s.data : HasPlus(s.data[j][2])})
        xref == IF i = 0 THEN s.font_xref ELSE s.data[i][1]
        font_family == IF i = 0 THEN PyNone ELSE s.data[i][2]
        rest == IF i = 0 THEN s.data ELSE RemoveAt(s.data, i)
    IN IF xref = Unbound
       THEN [s EXCEPT !.raised = "UnboundLocalError"]             \* line 90
       ELSE
       LET s1 == [s EXCEPT !.data = rest,
                           !.font_xref = xref,
                           !.BUFFERS = Put(s.BUFFERS, xref, BufferMeasurer("otf", idx)),
                           !.bound = Append(s.bound, xref)]
       IN IF ~file.saveOk
          THEN [s1 EXCEPT !.raised = "SaveError"]                 \* line 94
          ELSE [s1 EXCEPT !.fonts = Put(s.fonts, xref,
                                        EmbeddedEntry(font_family, xref, "otf", idx))]

RECURSIVE NonEmbeddedDropLast(_, _)
\* NonEmbedded with the last entry of the pool left out
NonEmbeddedDropLast(s, d) ==
    IF Len(d) <= 1 THEN s
    ELSE LET e == Head(d)
         IN NonEmbeddedDropLast(
                [s EXCEPT !.BUFFERS = Put(s.BUFFERS, e[1], SystemMeasurer(e[2])),
                          !.fonts = Put(s.fonts, e[1], SystemEntry(e[2], e[1]))],
                Tail(d))

RECURSIVE NonEmbedded(_, _)
\* lines 106-113: every entry still in the pool d becomes a system font
NonEmbedded(s, d) ==
    IF d = << >> THEN s
    ELSE LET e == Head(d)
         IN NonEmbedded(
                [s EXCEPT !.BUFFERS = Put(s.BUFFERS, e[1], SystemMeasurer(e[2])),
                          !.fonts = Put(s.fonts, e[1], SystemEntry(e[2], e[1]))],
                Tail(d))

-----------------------------------------------------------------------------
(* Extractors.extract_text_blocks *)

\* 10^6 * sin(k degrees) for k = 0..90, rounded
SinTable ==
    <<0, 17452, 34899, 52336, 69756, 87156, 104528, 121869, 139173, 156434,
      173648, 190809, 207912, 224951, 241922, 258819, 275637, 292372, 309017, 325568,
      342020, 358368, 374607, 390731, 406737, 422618, 438371, 453990, 469472, 484810,
      500000, 515038, 529919, 544639, 559193, 573576, 587785, 601815, 615661, 629320,
      642788, 656059, 669131, 681998, 694658, 707107, 719340, 731354, 743145, 754710,
      766044, 777146, 788011, 798636, 809017, 819152, 829038, 838671, 848048, 857167,
      866025, 874620, 882948, 891007, 898794, 906308, 913545, 920505, 927184, 933580,
      939693, 945519, 951057, 956305, 961262, 965926, 970296, 974370, 978148, 981627,
      984808, 987688, 990268, 992546, 994522, 996195, 997564, 998630, 999391, 999848,
      1000000>>

\* 10^6 * sin and cos of k degrees, k in 0..180
SinDeg(k) == IF k <= 90 THEN SinTable[k + 1] ELSE SinTable[181 - k]
CosDeg(k) == IF k <= 90 THEN SinTable[91 - k] ELSE -SinTable[k - 89]

Abs(n) == IF n < 0 THEN -n ELSE n

\* the angle of k degrees is at most the angle of the point (x, y), for y >= 0
AngleAtMost(k, y, x) ==
    LET cross == CosDeg(k) * y - SinDeg(k) * x
        dot == CosDeg(k) * x + SinDeg(k) * y
    IN cross > 0 \/ (cross = 0 /\ dot > 0)

\* int(math.degrees(math.atan2(y, x))): the angle in degrees, truncated towards zero
TruncDegrees(y, x) ==
    IF y = 0 /\ x = 0 THEN 0
    ELSE LET m == CHOOSE k \in 0..180 :
                      /\ AngleAtMost(k, Abs(y), x)
                      /\ (k = 180 \/ ~AngleAtMost(k + 1, Abs(y), x))
         IN IF y < 0 THEN -m ELSE m

\* HtmlDegrees with the wrap taken at > 360 instead of >= 360
HtmlDegreesWrapLate(dir) ==
    LET degrees == TruncDegrees(dir[1], dir[2])
        html_degrees == 360 - (degrees - 90)
    IN IF html_degrees > 360 THEN html_degrees - 360 ELSE html_degrees

\* lines 148-152: the rotation of a line from its direction vector
HtmlDegrees(dir) ==
    LET degrees == TruncDegrees(dir[1], dir[2])
        html_degrees == 360 - (degrees - 90)
    IN IF html_degrees >= 360 THEN html_degrees - 360 ELSE html_degrees

\* 10^3 * |cos(d degrees)| for d in 0..359, truncated
AbsCosMilli(d) == Abs(CosDeg(IF d <= 180 THEN d ELSE 360 - d)) \div 1000

\* round(v * scale, 2) in hundredths, for an integer v and an integer scale
Scaled(v, scale) == v * scale * 100

\* round(n / d, 2) for n in hundredths and d > 0: the nearest hundredth; on a decimal
\* tie the float decides between the two neighbours, here the even one is taken
RoundDiv(n, d) ==
    LET q == n \div d
        r == n % d
    IN IF 2 * r < d THEN q
       ELSE IF 2 * r > d THEN q + 1
       ELSE IF q % 2 = 0 THEN q ELSE q + 1

\* lines 176-182: the width of a run from its bbox and the rotation of its line
\* (the quotient by the cosine is a float in the code; here it is an integer quotient)
DisplayWidth(bbox, html_degrees, scale) ==
    LET width == Scaled(bbox[3] - bbox[1], scale)
    IN IF html_degrees # 0
       THEN IF html_degrees \in {90, 270}
            THEN Abs(Scaled(bbox[4] - bbox[2], scale))
            ELSE IF html_degrees # 180
                 THEN Abs((width * 1000) \div AbsCosMilli(html_degrees))
                 ELSE width
       ELSE width

\* LetterSpacing with the threshold test taken without abs()
LetterSpacingNoAbs(width, calculated_width, len) ==
    LET diff == width - calculated_width
    IN IF diff > 100 THEN RoundDiv(diff, len) ELSE 0

\* lines 190-194: the letter spacing of a run
LetterSpacing(width, calculated_width, len) ==
    LET diff == width - calculated_width
    IN IF Abs(diff) > 100 THEN RoundDiv(diff, len) ELSE 0

\* the answer of text_length for a run: an input of the model, Fails when it raises
Fails == -1

\* lines 184-188: the measured width, or the provisional width when measuring raises
\* (font_xref unassigned, no measurer under font_xref, or text_length raising)
CalculatedWidth(font_buffers, xref, span, width) ==
    IF xref = Unbound \/ xref \notin DOMAIN font_buffers \/ span.tl = Fails
    THEN width
    ELSE span.tl

\* lines 159-162: the xref of the first font of the page with that name, `prev` when
\* there is none (font_xref keeps the value an earlier run gave it)
LookupXref(page_fonts, font_name, prev) ==
    LET i == FirstIndex({j \in DOMAIN page_fonts : page_fonts[j][2] = font_name})
    IN IF i = 0 THEN prev ELSE page_fonts[i][1]

\* lines 154-213: the body of the span loop for the n-th span of the page
SpanStep(t, span, n, html_degrees, page_fonts, font_buffers, scale) ==
    LET xref == LookupXref(page_fonts, span.font, t.font_xref)
        t1 == [t EXCEPT !.font_xref = xref]
    IN IF span.text = 0 THEN t1                                   \* line 171
       ELSE
       LET width == DisplayWidth(span.bbox, html_degrees, scale)
           calculated_width == CalculatedWidth(font_buffers, xref, span, width)
           rotated == html_degrees # 0
           block == [text |-> span.text,
                     x |-> Scaled(IF rotated THEN span.origin[1] ELSE span.bbox[1], scale),
                     y |-> Scaled(IF rotated THEN span.origin[2] ELSE span.bbox[2], scale),
                     font_name |-> span.font,
                     font_xref |-> xref,
                     font_size |-> Scaled(span.size, scale),
                     width |-> width,
                     letter_spacing |-> LetterSpacing(width, calculated_width, span.text),
                     rotation |-> html_degrees,
                     span |-> n,                                  \* history
                     calc |-> calculated_width]                   \* history
       IN IF xref = Unbound
          THEN [t1 EXCEPT !.raised = "UnboundLocalError"]         \* line 205
          ELSE [t1 EXCEPT !.blocks = Append(t.blocks, block)]

RECURSIVE SpanLoop(_, _, _, _, _, _, _)
\* lines 154-213: the spans of one line, n spans having come before
SpanLoop(t, spans, n, html_degrees, page_fonts, font_buffers, scale) ==
    IF spans = << >> \/ t.raised # "no" THEN t
    ELSE SpanLoop(SpanStep(t, Head(spans), n + 1, html_degrees, page_fonts, font_buffers,
                           scale),
                  Tail(spans), n + 1, html_degrees, page_fonts, font_buffers, scale)

RECURSIVE LineLoop(_, _, _, _, _, _)
\* lines 145-213: the lines of the text blocks of the page
LineLoop(t, lines, n, page_fonts, font_buffers, scale) ==
    IF lines = << >> \/ t.raised # "no" THEN t
    ELSE LineLoop(SpanLoop(t, Head(lines).spans, n, HtmlDegrees(Head(lines).dir),
                           page_fonts, font_buffers, scale),
                  Tail(lines), n + Len(Head(lines).spans), page_fonts, font_buffers,
                  scale)

\* lines 139-215: the call; font_xref is unassigned when it starts
ExtractTextBlocks(page, font_buffers, scale) ==
    LineLoop([font_xref |-> Unbound, blocks |-> << >>, raised |-> "no"],
             page.lines, 0, page.fonts, font_buffers, scale)

-----------------------------------------------------------------------------
(* Bounds and input sets *)

MaxXref == 2
MaxPages == 2
MaxTtf == 2
MaxOtf == 2

Xrefs == 1..MaxXref

\* names recorded in the document: two subsetted embedded fonts and a system font
NameA == <<"S", "+", "A">>
NameB == <<"S", "+", "B">>
NameP == <<"P">>
TableNames == {NameA, NameB, NameP}

\* family names found in extracted files: also a subset name the document does not
\* record, and a family without the subset marker
NameZ == <<"S", "+", "Z">>
NameQ == <<"Q">>
Families == {NameA, NameB, NameZ, NameQ}

TtfFileSet == [family : Families, saveOk : BOOLEAN]
OtfFileSet == [saveOk : BOOLEAN]

\* all sequences over S of length at most n
SeqsUpTo(S, n) == UNION {[1..k -> S] : k \in 0..n}

\* the font lists page.get_fonts() returns: here no font or one font per page
PageFontLists == {<< >>} \cup {<<e>> : e \in Xrefs \X TableNames}

\* documents whose pages carry no text: the inputs of font resolution
FontDocs == {d \in SeqsUpTo([fonts : PageFontLists, lines : {<< >>}], MaxPages) : d # << >>}

-----------------------------------------------------------------------------
(* Steps of FontOps.extract_fonts_from_pdf *)

\* no call of extract_text_blocks has ended yet
NoResult == [font_xref |-> Unbound, blocks |-> << >>, raised |-> "none"]

\* an exception leaves the call (and pdf_to_html, which has no handler)
Raise(e) == pc' = "failed" /\ exc' = e

\* some page has been redacted when its font list or text layer is read
SeesRedacted(pages) == \E p \in pages : redactions[p] > 0

\* lines 22-30, 36: run the font decomposition tool; check=True raises on a non-zero exit
GenerateFonts ==
    /\ pc = "generate_fonts"
    /\ \E ok \in BOOLEAN :
         IF ok THEN pc' = "font_table" /\ exc' = exc
               ELSE Raise("CalledProcessError")
    /\ UNCHANGED <<tempDir, docOpen, doc, data, fonts, BUFFERS, font_xref, fileIdx, bound,
                   pageIdx, pages_data, textRead, redactions, staleRead, output, scale_factor, result>>

\* lines 38-46: enumerate every page's fonts
BuildFontTable ==
    /\ pc = "font_table"
    /\ data' = FontTable(doc)
    /\ staleRead' = (staleRead \/ SeesRedacted(DOMAIN doc))
    /\ fileIdx' = 0
    /\ pc' = "ttf_loop"
    /\ UNCHANGED <<tempDir, docOpen, doc, exc, fonts, BUFFERS, font_xref, bound,
                   pageIdx, pages_data, textRead, redactions, output, scale_factor, result>>

\* the state after a loop body, or the exception it raised
AfterFile(s, next) ==
    /\ data' = s.data
    /\ fonts' = s.fonts
    /\ BUFFERS' = s.BUFFERS
    /\ font_xref' = s.font_xref
    /\ bound' = s.bound
    /\ fileIdx' = fileIdx + 1
    /\ IF s.raised = "no" THEN pc' = next /\ exc' = exc ELSE Raise(s.raised)

\* lines 48-76: one iteration of the ttf loop
TtfFile ==
    /\ pc = "ttf_loop"
    /\ fileIdx < MaxTtf
    /\ \E file \in TtfFileSet : AfterFile(TtfStep(FontState, file, fileIdx + 1), "ttf_loop")
    /\ UNCHANGED <<tempDir, docOpen, doc, pageIdx, pages_data, textRead, redactions,
                   staleRead, output, scale_factor, result>>

\* line 48 -> line 78: no ttf file is left
TtfLoopEnd ==
    /\ pc = "ttf_loop"
    /\ pc' = "otf_loop"
    /\ fileIdx' = 0
    /\ UNCHANGED <<tempDir, docOpen, doc, exc, data, fonts, BUFFERS, font_xref, bound,
                   pageIdx, pages_data, textRead, redactions, staleRead, output, scale_factor, result>>

\* lines 78-103: one iteration of the otf loop
OtfFile ==
    /\ pc = "otf_loop"
    /\ fileIdx < MaxOtf
    /\ \E file \in OtfFileSet : AfterFile(OtfStep(FontState, file, fileIdx + 1), "otf_loop")
    /\ UNCHANGED <<tempDir, docOpen, doc, pageIdx, pages_data, textRead, redactions,
                   staleRead, output, scale_factor, result>>

\* lines 105-115: no otf file is left; the non-embedded fonts, and return
ReturnFonts ==
    /\ pc = "otf_loop"
    /\ LET s == NonEmbedded(FontState, data)
       IN /\ fonts' = s.fonts
          /\ BUFFERS' = s.BUFFERS
    /\ pc' = "fonts_returned"
    /\ UNCHANGED <<tempDir, docOpen, doc, exc, data, font_xref, fileIdx, bound,
                   pageIdx, pages_data, textRead, redactions, staleRead, output, scale_factor, result>>

FontSteps == GenerateFonts \/ BuildFontTable \/ TtfFile \/ TtfLoopEnd \/ OtfFile \/ ReturnFonts

\* a call of extract_fonts_from_pdf(pdf_path, doc) on any document of FontDocs
InitFonts ==
    /\ pc = "generate_fonts"
    /\ tempDir = "exists"
    /\ docOpen = TRUE
    /\ doc \in FontDocs
    /\ exc = "no"
    /\ data = << >>
    /\ fonts = << >>
    /\ BUFFERS = << >>
    /\ font_xref = Unbound
    /\ fileIdx = 0
    /\ bound = << >>
    /\ pageIdx = 0
    /\ pages_data = << >>
    /\ textRead = {}
    /\ redactions = [p \in DOMAIN doc |-> 0]
    /\ staleRead = FALSE
    /\ output = "absent"
    /\ scale_factor = 2
    /\ result = NoResult

SpecFonts == InitFonts /\ [][FontSteps]_vars

-----------------------------------------------------------------------------
(* Claims about font resolution, checked under SpecFonts *)

TableXrefs == Keys(FontTable(doc))

\* C1: when extract_fonts_from_pdf returns, every xref of the font table is a key of
\* the returned font map, its entry carries that xref, and FontOps.BUFFERS holds a
\* measurer for it, whether a font file consumed the entry or it was left over.
C1_EveryXrefResolved ==
    pc = "fonts_returned" =>
        \A x \in TableXrefs :
            /\ x \in DOMAIN fonts
            /\ fonts[x].xref = x
            /\ x \in DOMAIN BUFFERS
            /\ BUFFERS[x].src \in {"fontbuffer", "fontname"}

\* C1 witness: a call that returned with one xref consumed by a font file and another
\* left over as a non-embedded font.
C1_Witness ==
    /\ pc = "fonts_returned"
    /\ \E x, y \in TableXrefs :
         /\ \E i \in DOMAIN bound : bound[i] = x
         /\ fonts[x].data # PyNone
         /\ \A i \in DOMAIN bound : bound[i] # y
         /\ fonts[y].data = PyNone
         /\ BUFFERS[y].src = "fontname"

\* C2: every processed font file is bound under an xref of the font table, and no two
\* files are bound under the same key (a later file never overwrites an earlier one).
C2_FilesBoundToDistinctXrefs ==
    \A i \in DOMAIN bound :
        /\ bound[i] \in TableXrefs
        /\ \A j \in DOMAIN bound : j # i => bound[j] # bound[i]

\* C5: a failed woff conversion of one font file never aborts font resolution.
C5_ConversionFailureNotFatal == ~(pc = "failed" /\ exc = "SaveError")

-----------------------------------------------------------------------------
(* A call of Extractors.extract_text_blocks(page, font_buffers, scale_factor) *)

MaxSpans == 2
MaxLen == 5
MaxCoord == 2

\* line["dir"]: integer vectors stand for the directions (atan2 ignores the length)
Dirs == (-MaxCoord..MaxCoord) \X (-MaxCoord..MaxCoord)

\* pages for the font lookup: up to two fonts, one unrotated line, runs that name a font
\* of the page or not, with or without text, measurable or not
LookupFontLists == SeqsUpTo(Xrefs \X {NameA, NameB}, 2)
LookupSpans == [font : {NameA, NameB}, size : {10}, text : {0, 2}, bbox : {<<0, 0, 50, 10>>},
                origin : {<<0, 8>>}, tl : {Fails, 9600}]
LookupPages == {[fonts |-> f, lines |-> <<[dir |-> <<1, 0>>, spans |-> sp]>>] :
                    f \in LookupFontLists, sp \in SeqsUpTo(LookupSpans, MaxSpans)}

\* pages for the geometry: one font, one line of any direction, one run
GeomSpans == [font : {NameA}, size : {10}, text : 1..MaxLen,
              bbox : {<<0, 0, 50, 10>>, <<10, 20, 10, 50>>, <<0, 0, 49, 10>>},
              origin : {<<12, 48>>},
              tl : {Fails, 4800, 4899, 4900, 5000, 5101, 9600, 10400}]
GeomPages == {[fonts |-> <<<<1, NameA>>>>, lines |-> <<[dir |-> d, spans |-> <<sp>>]>>] :
                    d \in Dirs, sp \in GeomSpans}

\* font_buffers: a measurer for every xref, or for xref 1 alone
BufferSets == {[x \in D |-> SystemMeasurer(NameP)] : D \in {Xrefs, {1}}}

\* lines 139-215: the whole call on page 1 of doc
TextCall ==
    /\ pc = "text_call"
    /\ result' = ExtractTextBlocks(doc[1], BUFFERS, scale_factor)
    /\ textRead' = textRead \cup {1}
    /\ staleRead' = (staleRead \/ SeesRedacted({1}))
    /\ IF result'.raised = "no" THEN pc' = "text_returned" /\ exc' = exc
                                ELSE Raise(result'.raised)
    /\ UNCHANGED <<tempDir, docOpen, doc, data, fonts, BUFFERS, font_xref, fileIdx, bound,
                   pageIdx, pages_data, redactions, output, scale_factor>>

InitText ==
    /\ pc = "text_call"
    /\ tempDir = "exists"
    /\ docOpen = TRUE
    /\ \E page \in LookupPages \cup GeomPages : doc = <<page>>
    /\ exc = "no"
    /\ data = << >>
    /\ fonts = << >>
    /\ BUFFERS \in BufferSets
    /\ font_xref = Unbound
    /\ fileIdx = 0
    /\ bound = << >>
    /\ pageIdx = 1
    /\ pages_data = << >>
    /\ textRead = {}
    /\ redactions = [p \in DOMAIN doc |-> 0]
    /\ staleRead = FALSE
    /\ output = "absent"
    /\ scale_factor \in {1, 2}
    /\ result = NoResult

SpecText == InitText /\ [][TextCall]_vars

-----------------------------------------------------------------------------
(* Claims about text-run extraction, checked under SpecText *)

RECURSIVE Flatten(_)
\* the spans of the lines of a page, in reading order
Flatten(lines) == IF lines = << >> THEN << >> ELSE Head(lines).spans \o Flatten(Tail(lines))

PageSpans == Flatten(doc[1].lines)

\* the positions of the runs with text in the page, in order
TextSpanIndexes == {n \in DOMAIN PageSpans : PageSpans[n].text # 0}

\* the run's font is on the page, has a measurer, and the measurer answers
Measurable(span) ==
    /\ \E f \in DOMAIN doc[1].fonts : doc[1].fonts[f][2] = span.font
    /\ LookupXref(doc[1].fonts, span.font, Unbound) \in DOMAIN BUFFERS
    /\ span.tl # Fails

\* C6: extract_text_blocks never raises because of one run and never drops one: the
\* blocks are the runs with text, one each and in order, and a run whose font cannot
\* be looked up or measured gets its provisional width as measured width, hence
\* letter spacing 0.
C6_NoRaiseNoDrop ==
    pc \in {"text_returned", "failed"} =>
        /\ result.raised = "no"
        /\ Len(result.blocks) = Cardinality(TextSpanIndexes)
        /\ \A k \in DOMAIN result.blocks :
             /\ result.blocks[k].span \in TextSpanIndexes
             /\ \A j \in 1..(k - 1) : result.blocks[j].span < result.blocks[k].span
             /\ ~Measurable(PageSpans[result.blocks[k].span]) =>
                    /\ result.blocks[k].calc = result.blocks[k].width
                    /\ result.blocks[k].letter_spacing = 0

\* C7: the rotation of every emitted run is an integer of [0, 360).
C7_RotationInRange ==
    pc = "text_returned" =>
        \A k \in DOMAIN result.blocks : result.blocks[k].rotation \in 0..359

\* C7 witness: a run on a line of direction (1, 0), where 360 - (90 - 90) = 360 wraps to 0.
C7_Witness ==
    /\ pc = "text_returned"
    /\ doc[1].lines[1].dir = <<1, 0>>
    /\ \E k \in DOMAIN result.blocks : result.blocks[k].rotation = 0

\* C8: letter_spacing is 0 when |display_width - measured_width| <= 1.0, and otherwise
\* the hundredth nearest to (display_width - measured_width) / len(text), where the
\* display width is the rotation-corrected scaled width of the run's bbox and the
\* measured width is the width the run was measured at.
C8_LetterSpacing ==
    pc = "text_returned" =>
        \A k \in DOMAIN result.blocks :
            LET b == result.blocks[k]
                span == PageSpans[b.span]
                display_width == DisplayWidth(span.bbox, b.rotation, scale_factor)
                diff == display_width - b.calc
            IN /\ b.width = display_width
               /\ Abs(diff) <= 100 => b.letter_spacing = 0
               /\ Abs(diff) > 100 => 2 * Abs(b.letter_spacing * b.text - diff) <= b.text

\* C8 witness: the run "Hello" of width 50 at scale 2.0 whose font measures it at
\* 96.0: display width 100.0 and letter spacing 0.8.
C8_Witness ==
    /\ pc = "text_returned"
    /\ scale_factor = 2
    /\ \E k \in DOMAIN result.blocks :
         /\ result.blocks[k].text = 5
         /\ result.blocks[k].rotation = 0
         /\ result.blocks[k].width = 10000
         /\ result.blocks[k].calc = 9600
         /\ result.blocks[k].letter_spacing = 80

\* C10: the font_xref of every emitted run is the xref of the first font of the page
\* whose name is the run's font name; a run whose name is not on the page is never
\* emitted with the xref of an earlier run.
C10_FirstMatchXref ==
    pc = "text_returned" =>
        \A k \in DOMAIN result.blocks :
            LET span == PageSpans[result.blocks[k].span]
                i == FirstIndex({j \in DOMAIN doc[1].fonts : doc[1].fonts[j][2] = span.font})
            IN i # 0 /\ result.blocks[k].font_xref = doc[1].fonts[i][1]

-----------------------------------------------------------------------------
(* pdf_to_html *)

MaxDocPages == 2

\* a page whose run names the page's embedded font
PageEmbedded ==
    [fonts |-> <<<<1, NameA>>>>,
     lines |-> <<[dir |-> <<1, 0>>,
                  spans |-> <<[font |-> NameA, size |-> 10, text |-> 5,
                               bbox |-> <<0, 0, 50, 10>>, origin |-> <<0, 8>>,
                               tl |-> 9600]>>]>>]

\* a page with a rotated run in a system font
PageSystem ==
    [fonts |-> <<<<2, NameP>>>>,
     lines |-> <<[dir |-> <<0, 1>>,
                  spans |-> <<[font |-> NameP, size |-> 10, text |-> 2,
                               bbox |-> <<10, 20, 10, 50>>, origin |-> <<12, 48>>,
                               tl |-> Fails]>>]>>]

\* a page whose first run names a font that page.get_fonts() does not list
PageUnlisted ==
    [fonts |-> <<<<1, NameA>>>>,
     lines |-> <<[dir |-> <<1, 0>>,
                  spans |-> <<[font |-> NameB, size |-> 10, text |-> 2,
                               bbox |-> <<0, 0, 50, 10>>, origin |-> <<0, 8>>,
                               tl |-> 9600]>>]>>]

Docs == {d \in SeqsUpTo({PageEmbedded, PageSystem, PageUnlisted}, MaxDocPages) : d # << >>}

\* PageBody with the page rasterized (and redacted) before its text is extracted
PageBodySwapped == <<"page_image", "page_text">>

\* lines 352-353: the steps of the page loop's body, in order
PageBody == <<"page_text", "page_image">>

\* lines 349-360: where the loop goes after a step of its body; the page's record is
\* appended after the last step
EndOfStep(step, text_blocks) ==
    IF step = PageBody[1]
    THEN /\ pc' = PageBody[2]
         /\ UNCHANGED <<pageIdx, pages_data>>
    ELSE /\ pages_data' = Append(pages_data, [page |-> pageIdx, text_blocks |-> text_blocks])
         /\ IF pageIdx < Len(doc)
            THEN pc' = PageBody[1] /\ pageIdx' = pageIdx + 1
            ELSE pc' = "write" /\ pageIdx' = pageIdx

\* lines 328-331: create the scratch directory
CreateTempDir ==
    /\ pc = "start"
    /\ tempDir' = "exists"
    /\ pc' = "open"
    /\ UNCHANGED <<docOpen, doc, exc, data, fonts, BUFFERS, font_xref, fileIdx, bound, pageIdx,
                   pages_data, textRead, redactions, staleRead, output, scale_factor, result>>

\* line 333: open the document; pymupdf.open raises on a file it cannot open
OpenDoc ==
    /\ pc = "open"
    /\ \E ok \in BOOLEAN :
         IF ok THEN docOpen' = TRUE /\ pc' = "generate_fonts" /\ exc' = exc
               ELSE docOpen' = docOpen /\ Raise("FileDataError")
    /\ UNCHANGED <<tempDir, doc, data, fonts, BUFFERS, font_xref, fileIdx, bound, pageIdx,
                   pages_data, textRead, redactions, staleRead, output, scale_factor, result>>

\* BeginPages with the output file opened for writing before the page loop
BeginPagesOpeningOutput ==
    /\ pc = "fonts_returned"
    /\ pageIdx' = 1
    /\ pc' = PageBody[1]
    /\ output' = "written"
    /\ UNCHANGED <<tempDir, docOpen, doc, exc, data, fonts, BUFFERS, font_xref, fileIdx, bound,
                   pages_data, textRead, redactions, staleRead, scale_factor, result>>

\* lines 339-349: the font map is back; enter the page loop
BeginPages ==
    /\ pc = "fonts_returned"
    /\ pageIdx' = 1
    /\ pc' = PageBody[1]
    /\ UNCHANGED <<tempDir, docOpen, doc, exc, data, fonts, BUFFERS, font_xref, fileIdx, bound,
                   pages_data, textRead, redactions, staleRead, output, scale_factor, result>>

\* line 352: extract_text_blocks on the page of the loop
ExtractText ==
    /\ pc = "page_text"
    /\ result' = ExtractTextBlocks(doc[pageIdx], BUFFERS, scale_factor)
    /\ textRead' = textRead \cup {pageIdx}
    /\ staleRead' = (staleRead \/ SeesRedacted({pageIdx}))
    /\ IF result'.raised = "no"
       THEN EndOfStep("page_text", result'.blocks) /\ exc' = exc
       ELSE Raise(result'.raised) /\ UNCHANGED <<pageIdx, pages_data>>
    /\ UNCHANGED <<tempDir, docOpen, doc, data, fonts, BUFFERS, font_xref, fileIdx, bound,
                   redactions, output, scale_factor>>

\* lines 120-136, 353: extract_page_image redacts the page, then rasterizes it; the
\* rasterization is the PDF engine's and may raise
ExtractImage ==
    /\ pc = "page_image"
    /\ redactions' = [redactions EXCEPT ![pageIdx] = @ + 1]
    /\ \E ok \in BOOLEAN :
         IF ok THEN EndOfStep("page_image", result.blocks) /\ exc' = exc
               ELSE Raise("RuntimeError") /\ UNCHANGED <<pageIdx, pages_data>>
    /\ UNCHANGED <<tempDir, docOpen, doc, data, fonts, BUFFERS, font_xref, fileIdx, bound,
                   textRead, staleRead, output, scale_factor, result>>

\* lines 362-368: generate the HTML, open the output path for writing and write it
WriteOutput ==
    /\ pc = "write"
    /\ output' = "written"
    /\ pc' = "close"
    /\ UNCHANGED <<tempDir, docOpen, doc, exc, data, fonts, BUFFERS, font_xref, fileIdx, bound,
                   pageIdx, pages_data, textRead, redactions, staleRead, scale_factor, result>>

\* lines 370-371: close the document and clean the scratch directory up
Cleanup ==
    /\ pc = "close"
    /\ docOpen' = FALSE
    /\ tempDir' = "cleaned"
    /\ pc' = "done"
    /\ UNCHANGED <<doc, exc, data, fonts, BUFFERS, font_xref, fileIdx, bound, pageIdx,
                   pages_data, textRead, redactions, staleRead, output, scale_factor, result>>

\* line 329: the finalizer of the TemporaryDirectory object removes the directory if
\* and when the object is collected or the interpreter exits; after an exception
\* nothing in pdf_to_html runs it
ImplicitCleanup ==
    /\ pc = "failed"
    /\ tempDir = "exists"
    /\ tempDir' = "cleaned"
    /\ UNCHANGED <<pc, docOpen, doc, exc, data, fonts, BUFFERS, font_xref, fileIdx, bound, pageIdx,
                   pages_data, textRead, redactions, staleRead, output, scale_factor, result>>

\* pdf_to_html(pdf_path) is called with the default scale factor on a document of Docs
Init ==
    /\ pc = "start"
    /\ tempDir = "none"
    /\ docOpen = FALSE
    /\ doc \in Docs
    /\ exc = "no"
    /\ data = << >>
    /\ fonts = << >>
    /\ BUFFERS = << >>
    /\ font_xref = Unbound
    /\ fileIdx = 0
    /\ bound = << >>
    /\ pageIdx = 0
    /\ pages_data = << >>
    /\ textRead = {}
    /\ redactions = [p \in DOMAIN doc |-> 0]
    /\ staleRead = FALSE
    /\ output = "absent"
    /\ scale_factor = 2
    /\ result = NoResult

Next ==
    \/ CreateTempDir
    \/ OpenDoc
    \/ FontSteps
    \/ BeginPages
    \/ ExtractText
    \/ ExtractImage
    \/ WriteOutput
    \/ Cleanup
    \/ ImplicitCleanup

Spec == Init /\ [][Next]_vars

-----------------------------------------------------------------------------
(* Claims about pdf_to_html, checked under Spec *)

\* the call has ended: it returned, or an exception left it
Ended == pc \in {"done", "failed"}

\* C3: after a failure the output file has not been created or written; the output
\* is written only when no exception was raised, font resolution has returned and
\* every page has been extracted and rasterized.
C3_NoOutputOnFailure ==
    /\ pc = "failed" => output = "absent"
    /\ output = "written" =>
           /\ exc = "no"
           /\ TableXrefs \subseteq DOMAIN fonts
           /\ Len(pages_data) = Len(doc)
           /\ \A p \in DOMAIN doc : p \in textRead /\ redactions[p] > 0

\* C3 witness: a page's processing raised after an earlier page was finished, and
\* there is no output.
C3_Witness ==
    /\ pc = "failed"
    /\ exc = "UnboundLocalError"
    /\ pageIdx = 2
    /\ Len(pages_data) = 1
    /\ output = "absent"

C9_RedactionAfterRead ==
    /\ ~staleRead
    /\ \A p \in DOMAIN doc :
         /\ redactions[p] <= 1
         /\ redactions[p] > 0 => p \in textRead
         /\ p \in textRead => \A q \in 1..(p - 1) : q \in textRead /\ redactions[q] = 1
    /\ (\E p \in DOMAIN doc : redactions[p] > 0) => pc \notin {"start", "open", "generate_fonts",
                                                         "font_table", "ttf_loop", "otf_loop",
                                                         "fonts_returned"}

\* C9 witness: a two-page conversion that finished, each page read and then redacted once.
C9_Witness ==
    /\ pc = "done"
    /\ Len(doc) = 2
    /\ \A p \in DOMAIN doc : p \in textRead /\ redactions[p] = 1

====
